---------------------------- MODULE Spec2Model ----------------------------
(***************************************************************************)
(* A model of the event scraper of src/main.ts: the date normalizer        *)
(* (formatDate), the URL canonicalizer (removeSearchParams), the selector  *)
(* resolver (getSelectorsFromLLM), the field extractor (scrapeEvents), the *)
(* per-site scrape (scrapeWebsite), output cleaning (saveToJson) and the   *)
(* coordinator (main).                                                     *)
(*                                                                         *)
(* A JavaScript string is a sequence of one-character strings, so that     *)
(* split, trim, slice, toLowerCase, replace and the template literals are  *)
(* computed character by character.  The only whitespace character of the  *)
(* model's alphabet is the space.                                          *)
(***************************************************************************)
EXTENDS Integers, Sequences, FiniteSets, TLC

VARIABLES
    \* formatDate called on one input, and again on its own output
    dateString, nowYear, dateResult, dateResult2, datePc,
    \* scrapeEvents: its arguments, the blocks of the page, the callbacks that
    \* Promise.all waits for and what it settles to
    config, selectors, page, scrapePc, tasks, scrapeResult,
    \* main and scrapeWebsite: the configured sites, the site being scraped
    \* and the await it is at, the browsers open, the generateObject call and
    \* what getSelectorsFromLLM returned, whether an error is on its way out
    \* of the try block, the aggregate, console.error's site keys, what
    \* scrapeWebsite settled to for each site, the calls and the writes of
    \* saveToJson
    configs, siteIdx, mainPc, openBrowsers, llm, resolver, failing,
    allEvents, errorLog, calls, saveCalls, written

dateVars == <<dateString, dateResult, dateResult2, datePc>>
scrapeVars == <<config, selectors, page, scrapePc, tasks, scrapeResult>>
siteVars == <<config, selectors, page, scrapeResult, llm, resolver, failing>>
loopVars == <<siteIdx, allEvents, errorLog, calls>>
mainVars == <<configs, siteIdx, mainPc, openBrowsers, llm, resolver, failing,
              allEvents, errorLog, calls, saveCalls, written>>
vars == <<dateString, nowYear, dateResult, dateResult2, datePc,
          config, selectors, page, scrapePc, tasks, scrapeResult,
          configs, siteIdx, mainPc, openBrowsers, llm, resolver, failing,
          allEvents, errorLog, calls, saveCalls, written>>

(***************************************************************************)
(* Strings                                                                 *)
(***************************************************************************)
Digits == <<"0", "1", "2", "3", "4", "5", "6", "7", "8", "9">>
UpperAlpha == <<"A", "B", "C", "D", "E", "F", "G", "H", "I", "J", "K", "L", "M",
                "N", "O", "P", "Q", "R", "S", "T", "U", "V", "W", "X", "Y", "Z">>
LowerAlpha == <<"a", "b", "c", "d", "e", "f", "g", "h", "i", "j", "k", "l", "m",
                "n", "o", "p", "q", "r", "s", "t", "u", "v", "w", "x", "y", "z">>

EmptyStr == <<>>
Range(s) == {s[i] : i \in DOMAIN s}
Min(a, b) == IF a < b THEN a ELSE b

IsDigit(c) == c \in Range(Digits)
DigitVal(c) == (CHOOSE i \in DOMAIN Digits : Digits[i] = c) - 1
IsSpace(c) == c = " "

\* String.prototype.toLowerCase / toUpperCase on the model's alphabet
ToLowerChar(c) ==
    IF c \in Range(UpperAlpha)
    THEN LowerAlpha[CHOOSE i \in DOMAIN UpperAlpha : UpperAlpha[i] = c]
    ELSE c
ToUpperChar(c) ==
    IF c \in Range(LowerAlpha)
    THEN UpperAlpha[CHOOSE i \in DOMAIN LowerAlpha : LowerAlpha[i] = c]
    ELSE c
RECURSIVE MapChars(_, _)
MapChars(s, up) ==
    IF s = <<>> THEN <<>>
    ELSE <<IF up THEN ToUpperChar(Head(s)) ELSE ToLowerChar(Head(s))>>
         \o MapChars(Tail(s), up)
ToLowerCase(s) == MapChars(s, FALSE)
ToUpperCase(s) == MapChars(s, TRUE)

\* String.prototype.trim
RECURSIVE TrimStart(_)
TrimStart(s) ==
    IF s # <<>> /\ IsSpace(Head(s)) THEN TrimStart(Tail(s)) ELSE s
RECURSIVE TrimEnd(_)
TrimEnd(s) ==
    IF s # <<>> /\ IsSpace(s[Len(s)]) THEN TrimEnd(SubSeq(s, 1, Len(s) - 1)) ELSE s
Trim(s) == TrimEnd(TrimStart(s))

\* s.slice(0, n)
Slice(s, n) == SubSeq(s, 1, Min(n, Len(s)))

\* s.includes(t) / s.indexOf(t): the first position (1-based) where t occurs, 0 if none
IndexOf(s, t) ==
    LET hits == {i \in 1..(Len(s) - Len(t) + 1) : SubSeq(s, i, i + Len(t) - 1) = t}
    IN IF hits = {} THEN 0 ELSE CHOOSE i \in hits : \A j \in hits : i <= j
Includes(s, t) == IndexOf(s, t) # 0

\* s.split(c) for a one-character separator c: "" splits into one empty string
RECURSIVE SplitOn(_, _)
SplitOn(s, c) ==
    LET i == IndexOf(s, <<c>>)
    IN IF i = 0 THEN <<s>>
       ELSE <<SubSeq(s, 1, i - 1)>> \o SplitOn(SubSeq(s, i + 1, Len(s)), c)

\* s.split(/[,\s]+/).filter(Boolean): the maximal runs of characters that are
\* neither a comma nor whitespace
IsTokenSep(c) == c = "," \/ IsSpace(c)
RECURSIVE SplitTokens(_)
SplitTokens(s) ==
    IF s = <<>> THEN <<>>
    ELSE IF IsTokenSep(Head(s)) THEN SplitTokens(Tail(s))
    ELSE LET seps == {i \in DOMAIN s : IsTokenSep(s[i])}
             end == IF seps = {} THEN Len(s) + 1
                    ELSE CHOOSE i \in seps : \A j \in seps : i <= j
         IN <<SubSeq(s, 1, end - 1)>> \o SplitTokens(SubSeq(s, end, Len(s)))

\* s.replace(/\D/g, "")
StripNonDigits(s) == SelectSeq(s, IsDigit)

\* parts.join(sep)
RECURSIVE Join(_, _)
Join(parts, sep) ==
    IF parts = <<>> THEN <<>>
    ELSE IF Len(parts) = 1 THEN parts[1]
    ELSE parts[1] \o sep \o Join(Tail(parts), sep)

(***************************************************************************)
(* Numbers                                                                 *)
(***************************************************************************)
\* NaN, for the decimal strings that hold no digit; every number the model
\* parses is non-negative, so a negative value stands for it
NaN == 0 - 1

\* parseInt of a string of digits (or of undefined, passed as the empty string)
RECURSIVE ParseDigits(_, _)
ParseDigits(s, acc) ==
    IF s = <<>> THEN acc ELSE ParseDigits(Tail(s), acc * 10 + DigitVal(Head(s)))
ParseInt(s) == IF s = <<>> \/ ~IsDigit(s[1]) THEN NaN ELSE ParseDigits(s, 0)

\* `${n}` for a number
RECURSIVE NatToStr(_)
NatToStr(n) ==
    IF n < 10 THEN <<Digits[n + 1]>> ELSE NatToStr(n \div 10) \o <<Digits[(n % 10) + 1]>>
NumToStr(n) == IF n = NaN THEN <<"N", "a", "N">> ELSE NatToStr(n)

(***************************************************************************)
(* The built-in Date: new Date(year, monthIndex, day), getDay, getDate,    *)
(* getFullYear (local time throughout)                                     *)
(***************************************************************************)
\* days from 1970-01-01 to the first of month m (0-based) of year y, y >= 0
DaysFromCivil(y, m) ==
    LET mm == m + 1
        yy == IF mm <= 2 THEN y - 1 ELSE y
        era == yy \div 400
        yoe == yy - era * 400
        doy == (153 * (IF mm > 2 THEN mm - 3 ELSE mm + 9) + 2) \div 5
        doe == yoe * 365 + yoe \div 4 - yoe \div 100 + doy
    IN era * 146097 + doe - 719468

\* the calendar date of a day number
CivilFromDays(z) ==
    LET zz == z + 719468
        era == zz \div 146097
        doe == zz - era * 146097
        yoe == (doe - doe \div 1460 + doe \div 36524 - doe \div 146096) \div 365
        doy == doe - (365 * yoe + yoe \div 4 - yoe \div 100)
        mp == (5 * doy + 2) \div 153
        d == doy - (153 * mp + 2) \div 5 + 1
        m == IF mp < 10 THEN mp + 3 ELSE mp - 9
    IN [year |-> yoe + era * 400 + (IF m <= 2 THEN 1 ELSE 0), month |-> m - 1, date |-> d]

\* new Date(year, monthIndex, day): a two-digit year counts from 1900, a day
\* outside the month rolls over, NaN in any field gives an Invalid Date
NewDate(year, monthIndex, day) ==
    IF year = NaN \/ day = NaN
    THEN [valid |-> FALSE, fullYear |-> NaN, month |-> NaN, date |-> NaN, day |-> NaN]
    ELSE LET y == IF year <= 99 THEN 1900 + year ELSE year
             z == DaysFromCivil(y, monthIndex) + day - 1
             c == CivilFromDays(z)
         IN [valid |-> TRUE, fullYear |-> c.year, month |-> c.month, date |-> c.date,
             day |-> (z + 4) % 7]

(***************************************************************************)
(* formatDate                                                              *)
(***************************************************************************)
months == << <<"J", "a", "n">>, <<"F", "e", "b">>, <<"M", "a", "r">>, <<"A", "p", "r">>,
             <<"M", "a", "y">>, <<"J", "u", "n">>, <<"J", "u", "l">>, <<"A", "u", "g">>,
             <<"S", "e", "p">>, <<"O", "c", "t">>, <<"N", "o", "v">>, <<"D", "e", "c">> >>
days == << <<"S", "u", "n">>, <<"M", "o", "n">>, <<"T", "u", "e">>, <<"W", "e", "d">>,
           <<"T", "h", "u">>, <<"F", "r", "i">>, <<"S", "a", "t">> >>
MockValue == <<"m", "o", "c", "k", "V", "a", "l", "u", "e">>
UndefinedStr == <<"u", "n", "d", "e", "f", "i", "n", "e", "d">>

\* a returned string, or a thrown TypeError
Ok(s) == [ok |-> TRUE, v |-> s]
Threw == [ok |-> FALSE, v |-> <<>>]

\* months.findIndex((m) => m.toLowerCase() === month.toLowerCase().slice(0, 3)),
\* 0-based, -1 when no month matches
FindMonthIndex(month) ==
    LET key == Slice(ToLowerCase(month), 3)
        hits == {i \in DOMAIN months : ToLowerCase(months[i]) = key}
    IN IF hits = {} THEN 0 - 1 ELSE (CHOOSE i \in hits : \A j \in hits : i <= j) - 1

\* FormatParts with the year left out of the template
FormatPartsNoYear(dateObj, monthIndex) ==
    (IF dateObj.valid THEN days[dateObj.day + 1] ELSE UndefinedStr)
    \o <<",", " ">> \o months[monthIndex + 1] \o <<" ">> \o NumToStr(dateObj.date)

\* the template literal of the return statement
FormatParts(dateObj, monthIndex) ==
    (IF dateObj.valid THEN days[dateObj.day + 1] ELSE UndefinedStr)
    \o <<",", " ">> \o months[monthIndex + 1] \o <<" ">> \o NumToStr(dateObj.date)
    \o <<",", " ">> \o NumToStr(dateObj.fullYear)

\* parseSingleDate, from the month on: month, day and year are the
\* destructured parts, has* tells which of them are not undefined
ParseFromMonth(date, hasMonth, month, hasDay, day, hasYear, year, thisYear) ==
    LET yearStr == IF hasYear /\ year # <<>> THEN year ELSE NatToStr(thisYear)
        dayNum == IF hasDay THEN ParseInt(StripNonDigits(day)) ELSE NaN
        yearNum == ParseInt(StripNonDigits(yearStr))
    IN IF ~hasMonth THEN Threw      \* month.toLowerCase() of undefined
       ELSE LET monthIndex == FindMonthIndex(month)
            IN IF monthIndex = 0 - 1 THEN Ok(date)
               ELSE Ok(FormatParts(NewDate(yearNum, monthIndex, dayNum), monthIndex))

PartAt(parts, i) == IF i <= Len(parts) THEN parts[i] ELSE <<>>

parseSingleDate(date, thisYear) ==
    LET parts == SplitTokens(date)
        n == Len(parts)
    IN IF n >= 1 /\ parts[1] \in Range(days)
       THEN ParseFromMonth(date, n >= 2, PartAt(parts, 2), n >= 3, PartAt(parts, 3),
                           n >= 4, PartAt(parts, 4), thisYear)
       ELSE IF n = 0 THEN Threw     \* parts[0].slice of undefined
       ELSE IF Slice(parts[1], 3) \in Range(months)
       THEN ParseFromMonth(date, TRUE, parts[1], n >= 2, PartAt(parts, 2),
                           n >= 3, PartAt(parts, 3), thisYear)
       ELSE Ok(date)

formatDate(s, thisYear) ==
    IF Trim(s) = <<>> \/ s = MockValue THEN Ok(s)
    ELSE LET pieces == SplitOn(s, "-")
             dateParts == [i \in DOMAIN pieces |-> parseSingleDate(Trim(pieces[i]), thisYear)]
         IN IF \E i \in DOMAIN dateParts : ~dateParts[i].ok THEN Threw
            ELSE IF Len(dateParts) = 2
            THEN Ok(Join([i \in DOMAIN dateParts |-> dateParts[i].v], <<" ", "-", " ">>))
            ELSE Ok(dateParts[1].v)

(***************************************************************************)
(* removeSearchParams.  new URL(url) is modelled for the two kinds of text  *)
(* the model feeds it: an absolute https URL written in lower case          *)
(* (scheme, host, optional path, optional ?query, optional #fragment),      *)
(* which parses, and a text without a scheme, which does not                *)
(***************************************************************************)
HttpsScheme == <<"h", "t", "t", "p", "s", ":", "/", "/">>

StartsWith(s, t) == Len(s) >= Len(t) /\ SubSeq(s, 1, Len(t)) = t

\* the first position of s, from position `from` on, that holds a character
\* of stops; Len(s) + 1 if none
FirstOf(s, from, stops) ==
    LET hits == {i \in from..Len(s) : s[i] \in stops}
    IN IF hits = {} THEN Len(s) + 1 ELSE CHOOSE i \in hits : \A j \in hits : i <= j

removeSearchParams(url) ==
    IF ~StartsWith(url, HttpsScheme) THEN url                  \* catch: return url
    ELSE LET hostStart == Len(HttpsScheme) + 1
             hostEnd == FirstOf(url, hostStart, {"/", "?", "#"})
             pathEnd == FirstOf(url, hostEnd, {"?", "#"})
             hashStart == FirstOf(url, hostEnd, {"#"})
             path == SubSeq(url, hostEnd, pathEnd - 1)
         IN IF hostEnd = hostStart THEN url                    \* no host: Invalid URL
            ELSE SubSeq(url, 1, hostEnd - 1)
                 \o (IF path = <<>> THEN <<"/">> ELSE path)
                 \o SubSeq(url, hashStart, Len(url))

(***************************************************************************)
(* scrapeEvents: the work on one field of one block                        *)
(***************************************************************************)
SoldOutLower == <<"s", "o", "l", "d", " ", "o", "u", "t">>
SoldOutUpper == <<"S", "O", "L", "D", " ", "O", "U", "T">>

\* text.match(/\$\d+(\.\d{2})?/)?.[0], the empty string when there is no match
PriceMatch(text) ==
    LET starts == {i \in 1..(Len(text) - 1) : text[i] = "$" /\ IsDigit(text[i + 1])}
    IN IF starts = {} THEN <<>>
       ELSE LET i == CHOOSE x \in starts : \A y \in starts : x <= y
                nonDigits == {j \in (i + 1)..Len(text) : ~IsDigit(text[j])}
                e == IF nonDigits = {} THEN Len(text) + 1
                     ELSE CHOOSE x \in nonDigits : \A y \in nonDigits : x <= y
                cents == /\ e + 2 <= Len(text)
                         /\ text[e] = "."
                         /\ IsDigit(text[e + 1])
                         /\ IsDigit(text[e + 2])
            IN SubSeq(text, i, IF cents THEN e + 2 ELSE e - 1)

NormalizePrice(text) ==
    IF Includes(ToLowerCase(text), SoldOutLower) THEN SoldOutUpper
    ELSE IF PriceMatch(text) # <<>> THEN PriceMatch(text)
    ELSE Trim(text)

\* a JavaScript object: a function from the property names that hold a value
\* other than undefined
EmptyObject == [k \in {} |-> <<>>]
Put(obj, key, value) ==
    [k \in DOMAIN obj \cup {key} |-> IF k = key THEN value ELSE obj[k]]
Delete(obj, key) == [k \in DOMAIN obj \ {key} |-> obj[k]]

\* an element of a block: present or not; its textContent; its href when it
\* is an anchor
NoElement == [present |-> FALSE, text |-> <<>>, anchor |-> FALSE, href |-> <<>>]
Element(text) == [present |-> TRUE, text |-> text, anchor |-> FALSE, href |-> <<>>]
Anchor(text, href) == [present |-> TRUE, text |-> text, anchor |-> TRUE, href |-> href]

\* element.$eval(selector, (el) => el.textContent?.trim() || "").catch(() => "")
EvalText(el) == IF el.present THEN Trim(el.text) ELSE <<>>
\* element.$eval(selector, (el) => el.href).catch(() => ""): defined tells
\* whether the value is a string (an element that is no anchor has no href)
EvalHref(el) ==
    IF ~el.present THEN [defined |-> TRUE, v |-> <<>>]
    ELSE IF el.anchor THEN [defined |-> TRUE, v |-> el.href]
    ELSE [defined |-> FALSE, v |-> <<>>]

\* the locals of one block's callback
NewTask(websiteKey) ==
    [eventData |-> Put(EmptyObject, "website", websiteKey),
     presenter |-> <<>>, mainArtist |-> <<>>, supportingActs |-> <<>>,
     threw |-> FALSE]

\* the if / else-if chain of the field loop, for every key but ticketLink,
\* once the text of the key's element is read
ApplyText(task, key, text, venue, thisYear) ==
    IF key = "price" THEN [task EXCEPT !.eventData = Put(@, key, NormalizePrice(text))]
    ELSE IF key = "date"
    THEN LET d == formatDate(text, thisYear)
         IN IF d.ok THEN [task EXCEPT !.eventData = Put(@, key, d.v)]
            ELSE [task EXCEPT !.threw = TRUE]
    ELSE IF key = "event" THEN [task EXCEPT !.mainArtist = text]
    ELSE IF key = "venue" /\ text = <<>> THEN [task EXCEPT !.eventData = Put(@, key, venue)]
    ELSE IF key = "pretitle" THEN [task EXCEPT !.presenter = text]
    ELSE IF key = "subtitle" THEN [task EXCEPT !.supportingActs = text]
    ELSE [task EXCEPT !.eventData = Put(@, key, text)]

\* the ticketLink branch, once the href of the key's element is read
ApplyHref(task, key, href) ==
    IF href.defined
    THEN [task EXCEPT !.eventData = Put(@, key, removeSearchParams(href.v))]
    ELSE [task EXCEPT !.eventData = Delete(@, key)]   \* new URL(undefined) throws: undefined

\* the event title, built after the field loop
EventTitle(task) ==
    Join(SelectSeq(<<ToUpperCase(task.presenter), task.mainArtist, task.supportingActs>>,
                   LAMBDA x : x # <<>>),
         <<" ">>)
FinishTask(task) == Put(task.eventData, "event", EventTitle(task))

(***************************************************************************)
(* websiteConfigs, and the pages the sites serve                           *)
(***************************************************************************)
Entry(key, selector) == [key |-> key, selector |-> selector]

\* the defaultSelectors of the five thestateroompresents.com sites
StateRoomSelectors ==
    <<Entry("venue", ".up-pretitle"), Entry("price", ".up-link a"),
      Entry("event", ".up-title a"), Entry("date", ".up-date"),
      Entry("ticketLink", ".up-link a"), Entry("subtitle", ".up-subtitle"),
      Entry("pretitle", ".up-pretitle")>>
\* the defaultSelectors of snspresents
SnsSelectors ==
    <<Entry("venue", ".tix__venue"), Entry("price", ".tix__widget--footer"),
      Entry("event", ".tix__title--headliner"), Entry("date", ".tix__date"),
      Entry("ticketLink", ".tix__widget--footer a")>>

SiteConfig(key, venue, upcoming, defaults) ==
    [key |-> key, venue |-> venue, upcomingEventsSelector |-> upcoming,
     defaultSelectors |-> defaults]

\* Object.entries(websiteConfigs): four of the six sites, in an order that
\* puts the two kinds of site first
websiteConfigs ==
    <<SiteConfig(<<"e", "c", "c", "l", "e", "s">>, <<"E", "c", "c", "l", "e", "s", " ", "T", "h", "e", "a", "t", "e", "r">>, "", StateRoomSelectors),
      SiteConfig(<<"s", "n", "s", "p", "r", "e", "s", "e", "n", "t", "s">>, <<"S", "N", "S", " ", "P", "r", "e", "s", "e", "n", "t", "s">>, "text=upcoming events", SnsSelectors),
      SiteConfig(<<"s", "t", "a", "t", "e", "r", "o", "o", "m">>, <<"T", "h", "e", " ", "S", "t", "a", "t", "e", " ", "R", "o", "o", "m">>, "", StateRoomSelectors),
      SiteConfig(<<"c", "o", "m", "m", "o", "n", "w", "e", "a", "l", "t", "h">>, <<"C", "o", "m", "m", "o", "n", "w", "e", "a", "l", "t", "h", " ", "R", "o", "o", "m">>, "", StateRoomSelectors)>>

\* the text and link of the elements of an event block, by selector
BlockContents ==
    [srFull |->
        [p \in {".up-pretitle"} |-> Element(<<"K", "r", "c", "l">>)] @@
        [p \in {".up-link a"} |-> Anchor(<<" ", "T", "i", "c", "k", "e", "t", "s", " ", "$", "2", "5", " ">>, <<"h", "t", "t", "p", "s", ":", "/", "/", "t", ".", "c", "o", "/", "a", "?", "u", "=", "1">>)] @@
        [p \in {".up-title a"} |-> Anchor(<<"B", "a", "n", "d">>, <<"h", "t", "t", "p", "s", ":", "/", "/", "t", ".", "c", "o", "/", "b", "a", "n", "d">>)] @@
        [p \in {".up-date"} |-> Element(<<"J", "u", "l", " ", "4">>)] @@
        [p \in {".up-subtitle"} |-> Element(<<"G", "u", "e", "s", "t">>)],
     srSoldOut |->
        [p \in {".up-pretitle"} |-> Element(<<>>)] @@
        [p \in {".up-link a"} |-> Anchor(<<"S", "o", "l", "d", " ", "O", "u", "t">>, <<"h", "t", "t", "p", "s", ":", "/", "/", "t", ".", "c", "o", "/", "b">>)] @@
        [p \in {".up-title a"} |-> Anchor(<<"D", "u", "o">>, <<"h", "t", "t", "p", "s", ":", "/", "/", "t", ".", "c", "o", "/", "b", "a", "n", "d">>)] @@
        [p \in {".up-date"} |-> Element(<<"T", "h", "u", ",", " ", "J", "u", "l", " ", "5", ",", " ", "2", "0", "2", "4">>)] @@
        [p \in {".up-subtitle"} |-> Element(<<>>)],
     srOpenRange |->
        [p \in {".up-pretitle"} |-> Element(<<"K", "r", "c", "l">>)] @@
        [p \in {".up-link a"} |-> Anchor(<<" ", "T", "i", "c", "k", "e", "t", "s", " ", "$", "2", "5", " ">>, <<"h", "t", "t", "p", "s", ":", "/", "/", "t", ".", "c", "o", "/", "a", "?", "u", "=", "1">>)] @@
        [p \in {".up-title a"} |-> Anchor(<<"F", "e", "s", "t">>, <<"h", "t", "t", "p", "s", ":", "/", "/", "t", ".", "c", "o", "/", "b", "a", "n", "d">>)] @@
        [p \in {".up-date"} |-> Element(<<"J", "u", "l", " ", "4", " ", "-">>)] @@
        [p \in {".up-subtitle"} |-> Element(<<>>)],
     snsFull |->
        [p \in {".tix__venue"} |-> Element(<<"H", "a", "l", "l">>)] @@
        [p \in {".tix__widget--footer"} |-> Element(<<" ", "$", "3", "0", ".", "0", "0", " ", "d", "o", "o", "r", " ">>)] @@
        [p \in {".tix__title--headliner"} |-> Element(<<"T", "r", "i", "o">>)] @@
        [p \in {".tix__date"} |-> Element(<<"J", "u", "l", " ", "4", " ", "-", " ", "J", "u", "l", " ", "5", ",", " ", "2", "0", "2", "4">>)] @@
        [p \in {".tix__widget--footer a"} |-> Anchor(<<"B", "u", "y">>, <<"h", "t", "t", "p", "s", ":", "/", "/", "s", ".", "i", "o", "?", "r", "=", "2">>)],
     snsWeekday |->
        [p \in {".tix__venue"} |-> Element(<<"H", "a", "l", "l">>)] @@
        [p \in {".tix__widget--footer"} |-> Element(<<" ", "$", "3", "0", ".", "0", "0", " ", "d", "o", "o", "r", " ">>)] @@
        [p \in {".tix__title--headliner"} |-> Element(<<"S", "o", "l", "o">>)] @@
        [p \in {".tix__date"} |-> Element(<<"S", "a", "t">>)] @@
        [p \in {".tix__widget--footer a"} |-> Anchor(<<"B", "u", "y">>, <<"h", "t", "t", "p", "s", ":", "/", "/", "s", ".", "i", "o", "?", "r", "=", "2">>)]]

\* a block of the page: one of the contents, with the element of one
\* selector possibly missing from it
Block(content, missing) == [content |-> content, missing |-> missing]
\* the element that a selector finds in a block
ElementOf(block, selector) ==
    IF selector = block.missing \/ selector \notin DOMAIN BlockContents[block.content]
    THEN NoElement
    ELSE BlockContents[block.content][selector]

SelectorsOf(entries) == {entries[i].selector : i \in DOMAIN entries}

(***************************************************************************)
(* The inputs of formatDate                                                *)
(***************************************************************************)
MaxDay == 32
MaxNowYear == 2026

\* the calendar years in which a call may be made
NowYears == 2024..MaxNowYear

Thu == <<"T", "h", "u">>
Mon == <<"M", "o", "n">>
Jul == <<"J", "u", "l">>
July == <<"J", "u", "l", "y">>
LowerJul == <<"j", "u", "l">>
Foo == <<"F", "o", "o">>
Y2024 == <<"2", "0", "2", "4">>
Y2023 == <<"2", "0", "2", "3">>
Ordinal4 == <<"4", "t", "h">>
InvalidDate == <<"I", "n", "v", "a", "l", "i", "d", " ", "D", "a", "t", "e">>

WeekdayWords == {<<>>, Thu, Mon}
MonthWords == {<<>>, July, LowerJul, Foo} \cup Range(months)
DayWords == {<<>>, Ordinal4} \cup {NatToStr(d) : d \in 0..MaxDay}
YearWords == {<<>>, Y2024, Y2023}

\* "Www, Mon D, YYYY" with any of the four words left out
Compose(wd, m, d, y) ==
    LET w1 == IF wd # <<>> /\ (m \o d \o y) # <<>> THEN wd \o <<",", " ">> ELSE wd
        w2 == IF m # <<>> /\ (d \o y) # <<>> THEN m \o <<" ">> ELSE m
        w3 == IF d # <<>> /\ y # <<>> THEN d \o <<",", " ">> ELSE d
    IN w1 \o w2 \o w3 \o y

SingleInputs ==
    {Compose(wd, m, d, y) : wd \in WeekdayWords, m \in MonthWords,
                            d \in DayWords, y \in YearWords}

\* the sides of a range: no weekday, a few months, days and years
RangeSides ==
    {Compose(<<>>, m, d, y) : m \in {<<>>, Jul, Foo},
                              d \in {<<>>, <<"4">>, <<"5">>}, y \in {<<>>, Y2024}}
RangeInputs ==
    {l \o sep \o r : l \in RangeSides, r \in RangeSides, sep \in {<<" ", "-", " ">>, <<"-">>}}
ThreePartInputs ==
    {l \o <<"-">> \o m \o <<"-">> \o r : l \in {Foo, Compose(<<>>, Jul, <<"4">>, Y2024)},
                                         m \in {Foo, Jul}, r \in {Foo, Y2024}}
OtherInputs == {MockValue, InvalidDate, <<" ">>, <<" ">> \o InvalidDate \o <<" ">>}

DateInputs == SingleInputs \cup RangeInputs \cup ThreePartInputs \cup OtherInputs

(***************************************************************************)
(* formatDate called on an input, then on its own output                   *)
(***************************************************************************)
\* the parts of the state that a specification leaves alone
NoConfig == SiteConfig(<<>>, <<>>, "", <<>>)
Resolved(v) == [settled |-> TRUE, ok |-> TRUE, v |-> v]
Rejected == [settled |-> TRUE, ok |-> FALSE, v |-> <<>>]
Unsettled == [settled |-> FALSE, ok |-> FALSE, v |-> <<>>]
ScrapeIdle ==
    /\ config = NoConfig
    /\ selectors = <<>>
    /\ page = <<>>
    /\ scrapePc = "idle"
    /\ tasks = <<>>
    /\ scrapeResult = Unsettled
MainIdle ==
    /\ configs = <<>>
    /\ siteIdx = 1
    /\ mainPc = "idle"
    /\ openBrowsers = 0
    /\ llm = Unsettled
    /\ resolver = Unsettled
    /\ failing = FALSE
    /\ allEvents = <<>>
    /\ errorLog = <<>>
    /\ calls = <<>>
    /\ saveCalls = 0
    /\ written = <<>>
DateIdle ==
    /\ dateString = <<>>
    /\ dateResult = Threw
    /\ dateResult2 = Threw
    /\ datePc = "idle"

InitDate ==
    /\ dateString \in DateInputs
    /\ nowYear \in NowYears
    /\ ScrapeIdle
    /\ MainIdle
    /\ dateResult = Threw
    /\ dateResult2 = Threw
    /\ datePc = "input"

CallFormatDate ==
    /\ datePc = "input"
    /\ dateResult' = formatDate(dateString, nowYear)
    /\ datePc' = "formatted"
    /\ UNCHANGED <<dateString, nowYear, dateResult2>>
    /\ UNCHANGED <<scrapeVars, mainVars>>

CallFormatDateAgain ==
    /\ datePc = "formatted"
    /\ dateResult.ok
    /\ dateResult2' = formatDate(dateResult.v, nowYear)
    /\ datePc' = "reformatted"
    /\ UNCHANGED <<dateString, nowYear, dateResult>>
    /\ UNCHANGED <<scrapeVars, mainVars>>

NextDate == CallFormatDate \/ CallFormatDateAgain

SpecDate == InitDate /\ [][NextDate]_vars

(***************************************************************************)
(* Claims about formatDate                                                 *)
(***************************************************************************)
IsLeapYear(y) == (y % 4 = 0 /\ y % 100 # 0) \/ y % 400 = 0
DaysInMonth(m, y) ==
    IF m = 2 THEN (IF IsLeapYear(y) THEN 29 ELSE 28)
    ELSE IF m \in {4, 6, 9, 11} THEN 30 ELSE 31

\* a word of the input that names a month: a canonical abbreviation, or a
\* longer name that begins with one
MonthNumber(m) == CHOOSE i \in DOMAIN months : months[i] = Slice(m, 3)
IsMonthWord(m) == Slice(m, 3) \in Range(months)
DayNumber(d) == ParseInt(StripNonDigits(d))

\* the valid single dates when the current year is thisYear: an optional
\* weekday, a month, a day that exists in that month of the year written (of
\* the current year when none is written), an optional year
ValidSingleDatesIn(thisYear) ==
    UNION {{Compose(wd, m, d, y) :
               wd \in WeekdayWords,
               d \in {x \in DayWords :
                        /\ x # <<>>
                        /\ DayNumber(x) >= 1
                        /\ DayNumber(x) <= DaysInMonth(MonthNumber(m),
                               IF y = <<>> THEN thisYear ELSE ParseInt(y))}} :
           m \in {x \in MonthWords : IsMonthWord(x)}, y \in YearWords}
ValidSingleDates == [y \in NowYears |-> ValidSingleDatesIn(y)]

StartsWithWeekday(s) == Slice(s, 3) \in Range(days)

\* each '-'-separated piece of s, trimmed, reads as [weekday] month day [year]
\* with a month the table resolves and a day that holds a digit
IsSingleDateText(s) ==
    LET parts == SplitTokens(s)
        rest == IF parts # <<>> /\ parts[1] \in Range(days) THEN Tail(parts) ELSE parts
    IN /\ Len(rest) >= 2
       /\ FindMonthIndex(rest[1]) # 0 - 1
       /\ StripNonDigits(rest[2]) # <<>>
ParsedAsDate(s) ==
    LET pieces == SplitOn(s, "-")
    IN Len(pieces) <= 2 /\ \A i \in DOMAIN pieces : IsSingleDateText(Trim(pieces[i]))

\* C3: formatDate returns a value for every input, and returns the input
\* itself, unchanged, whenever the input is not parsed as a date
C3_NeverThrowsAndPassesThrough ==
    datePc # "input" =>
        /\ dateResult.ok
        /\ ~ParsedAsDate(dateString) => dateResult.v = dateString

JulyRange ==
    Compose(<<>>, Jul, <<"4">>, <<>>) \o <<" ", "-", " ">> \o Compose(<<>>, Jul, <<"5">>, Y2024)
JulyRangeNormalized ==
    <<"T", "h", "u", ",", " ", "J", "u", "l", " ", "4", ",", " ", "2", "0", "2", "4">>
    \o <<" ", "-", " ">>
    \o <<"F", "r", "i", ",", " ", "J", "u", "l", " ", "5", ",", " ", "2", "0", "2", "4">>

\* C8: formatDate("Jul 4 - Jul 5, 2024") is "Thu, Jul 4, 2024 - Fri, Jul 5, 2024"
\* in whatever calendar year the call is made
C8_RangeInAnyYear ==
    (datePc # "input" /\ dateString = JulyRange) => dateResult = Ok(JulyRangeNormalized)

\* C9: for a valid single date, the output of formatDate begins with a weekday
\* abbreviation, and formatDate applied to that output returns it unchanged
C9_WeekdayAndIdempotent ==
    dateString \in ValidSingleDates[nowYear] =>
        /\ datePc # "input" => dateResult.ok /\ StartsWithWeekday(dateResult.v)
        /\ datePc = "reformatted" => dateResult2 = dateResult

\* a valid single date that formatDate rewrote, normalized a second time
C9_Witness ==
    /\ datePc = "reformatted"
    /\ dateString \in ValidSingleDates[nowYear]
    /\ dateResult.v # dateString

(***************************************************************************)
(* scrapeEvents: page.$$, one callback per block running up to its next    *)
(* await, and Promise.all over the callbacks                               *)
(***************************************************************************)
MaxBlocks == 2

\* the first entry from k on whose selector is not empty (if (!selector)
\* continue); Len(entries) + 1 if none
NextAwait(entries, k) ==
    LET rest == {i \in k..Len(entries) : entries[i].selector # ""}
    IN IF rest = {} THEN Len(entries) + 1 ELSE CHOOSE i \in rest : \A j \in rest : i <= j

\* a callback that has passed entry k - 1: it waits for the text of the next
\* entry that has a selector, or it has run to its return
Advance(task, entries, k) ==
    LET n == NextAwait(entries, k)
    IN IF n > Len(entries)
       THEN [task EXCEPT !.eventData = FinishTask(task), !.k = n, !.phase = "done"]
       ELSE [task EXCEPT !.k = n, !.phase = "text"]

\* the callback of one block, from its call to its first await
StartTask(websiteKey, entries) ==
    Advance(NewTask(websiteKey) @@ [k |-> 1, phase |-> "text"], entries, 1)

\* the callback resumes with the text of the element of entry k
ResumeWithText(task, block, entries, venue, thisYear) ==
    LET e == entries[task.k]
        text == EvalText(ElementOf(block, e.selector))
    IN IF e.key = "ticketLink" THEN [task EXCEPT !.phase = "href"]
       ELSE LET t2 == ApplyText(task, e.key, text, venue, thisYear)
            IN IF t2.threw THEN [t2 EXCEPT !.phase = "threw"]
               ELSE Advance(t2, entries, task.k + 1)

\* the callback resumes with the href of the element of entry k
ResumeWithHref(task, block, entries) ==
    LET e == entries[task.k]
    IN Advance(ApplyHref(task, e.key, EvalHref(ElementOf(block, e.selector))),
               entries, task.k + 1)

\* one callback run from its call to its end with no other callback in between
RECURSIVE RunTask(_, _, _, _, _)
RunTask(task, block, entries, venue, thisYear) ==
    IF task.phase = "text"
    THEN RunTask(ResumeWithText(task, block, entries, venue, thisYear),
                 block, entries, venue, thisYear)
    ELSE IF task.phase = "href"
    THEN RunTask(ResumeWithHref(task, block, entries), block, entries, venue, thisYear)
    ELSE task

\* what Promise.all settles to once every callback has ended or one has thrown
PromiseAll(ts) ==
    IF \E i \in DOMAIN ts : ts[i].phase = "threw" THEN Rejected
    ELSE Resolved([i \in DOMAIN ts |-> ts[i].eventData])

\* scrapeEvents as a function of the page: every callback run to its end
scrapeEvents(blocks, entries, websiteKey, venue, thisYear) ==
    PromiseAll([i \in DOMAIN blocks |->
                   RunTask(StartTask(websiteKey, entries), blocks[i], entries, venue, thisYear)])

\* the answers of the structured-completion service: selectors that match
\* nothing on the page (those of the test), or the five required default
\* selectors without the optional ones
NewSelectors ==
    <<Entry("venue", ".new-venue"), Entry("price", ".new-price"),
      Entry("event", ".new-event"), Entry("date", ".new-date"),
      Entry("ticketLink", ".new-ticket")>>
RequiredOnly(entries) ==
    SelectSeq(entries, LAMBDA e : e.key \notin {"subtitle", "pretitle"})
LLMAnswers(cfg) == {NewSelectors, RequiredOnly(cfg.defaultSelectors)}

\* the blocks a page of a site may hold
BlocksOf(cfg) ==
    IF cfg.defaultSelectors = SnsSelectors
    THEN {Block("snsFull", m) : m \in {"none"} \cup SelectorsOf(SnsSelectors)}
         \cup {Block("snsWeekday", m) : m \in {"none", ".tix__venue"}}
    ELSE {Block("srFull", m) : m \in {"none"} \cup SelectorsOf(StateRoomSelectors)}
         \cup {Block("srSoldOut", "none")}
         \cup {Block("srOpenRange", m) : m \in {"none", ".up-subtitle"}}
SeqsUpTo(S, n) == UNION {[1..m -> S] : m \in 0..n}

InitScrape ==
    /\ DateIdle
    /\ nowYear = MaxNowYear
    /\ config \in Range(SubSeq(websiteConfigs, 1, 2))
    /\ selectors \in {config.defaultSelectors} \cup LLMAnswers(config)
    /\ page \in SeqsUpTo(BlocksOf(config), MaxBlocks)
    /\ scrapePc = "call"
    /\ tasks = <<>>
    /\ scrapeResult = Unsettled
    /\ MainIdle

\* page.$$(eventListSelector) resolves; map calls every callback, each runs
\* to its first await; Promise.all waits
QueryAll ==
    /\ scrapePc = "call"
    /\ tasks' = [i \in DOMAIN page |-> StartTask(config.key, selectors)]
    /\ scrapePc' = "running"
    /\ UNCHANGED <<config, selectors, page, scrapeResult, nowYear>>
    /\ UNCHANGED <<dateVars, mainVars>>

\* the text read of callback i settles
TextRead(i) ==
    /\ scrapePc \in {"running", "settled"}
    /\ tasks[i].phase = "text"
    /\ tasks' = [tasks EXCEPT ![i] =
                    ResumeWithText(tasks[i], page[i], selectors, config.venue, nowYear)]
    /\ UNCHANGED <<config, selectors, page, scrapePc, scrapeResult, nowYear>>
    /\ UNCHANGED <<dateVars, mainVars>>

\* the href read of callback i settles
HrefRead(i) ==
    /\ scrapePc \in {"running", "settled"}
    /\ tasks[i].phase = "href"
    /\ tasks' = [tasks EXCEPT ![i] = ResumeWithHref(tasks[i], page[i], selectors)]
    /\ UNCHANGED <<config, selectors, page, scrapePc, scrapeResult, nowYear>>
    /\ UNCHANGED <<dateVars, mainVars>>

\* Promise.all settles: rejected as soon as one callback has thrown (the
\* others go on), resolved once all have returned
PromiseAllSettles ==
    /\ scrapePc = "running"
    /\ \/ \E i \in DOMAIN tasks : tasks[i].phase = "threw"
       \/ \A i \in DOMAIN tasks : tasks[i].phase = "done"
    /\ scrapeResult' = PromiseAll(tasks)
    /\ scrapePc' = "settled"
    /\ UNCHANGED <<config, selectors, page, tasks, nowYear>>
    /\ UNCHANGED <<dateVars, mainVars>>

NextScrape ==
    \/ QueryAll
    \/ \E i \in DOMAIN tasks : TextRead(i)
    \/ \E i \in DOMAIN tasks : HrefRead(i)
    \/ PromiseAllSettles

SpecScrape == InitScrape /\ [][NextScrape]_vars

(***************************************************************************)
(* Claims about scrapeEvents                                               *)
(***************************************************************************)
\* the callback of block b run alone, and the same with every element of b
\* in place
TaskOf(b) == RunTask(StartTask(config.key, selectors), b, selectors, config.venue, nowYear)
IntactTaskOf(b) == TaskOf(Block(b.content, "none"))

\* C6: scrapeEvents returns one record per block that the container selector
\* matches, the i-th record built from the i-th block, whatever the order
\* in which the callbacks of the blocks run and end, and website is websiteKey
C6_OneRecordPerBlockInOrder ==
    scrapePc = "settled" =>
        /\ scrapeResult.ok
        /\ Len(scrapeResult.v) = Len(page)
        /\ \A i \in DOMAIN page :
              /\ scrapeResult.v[i] = TaskOf(page[i]).eventData
              /\ scrapeResult.v[i].website = config.key

\* the keys that callback i has read so far and whose selector found no
\* element in the block, although the intact block holds one
FailedKeys(i) ==
    {selectors[k].key :
        k \in {j \in DOMAIN selectors : /\ j < tasks[i].k
                                       /\ selectors[j].selector = page[i].missing}}
FieldOrEmpty(obj, f) == IF f \in DOMAIN obj THEN obj[f] ELSE <<>>

\* C10: when the read of a field's element fails in a block, the callback of
\* the block still returns its record; the failed field is built from the
\* empty string (venue becomes the fallback venue), and every other field
\* of the block is what the intact block gives
C10_FieldFailureIsLocal ==
    \A i \in DOMAIN tasks :
        (FailedKeys(i) # {} /\ tasks[i].phase \in {"done", "threw"}) =>
            LET failed == FailedKeys(i)
                intact == IntactTaskOf(page[i])
                got == tasks[i].eventData
            IN /\ tasks[i].phase = "done"
               /\ \A f \in {"price", "date", "ticketLink"} :
                     FieldOrEmpty(got, f) =
                        IF f \in failed THEN <<>> ELSE FieldOrEmpty(intact.eventData, f)
               /\ got.venue = IF "venue" \in failed THEN config.venue ELSE intact.eventData.venue
               /\ got.event =
                     EventTitle([presenter |-> IF "pretitle" \in failed THEN <<>>
                                               ELSE intact.presenter,
                                 mainArtist |-> IF "event" \in failed THEN <<>>
                                                ELSE intact.mainArtist,
                                 supportingActs |-> IF "subtitle" \in failed THEN <<>>
                                                    ELSE intact.supportingActs])
               /\ got.website = config.key

(***************************************************************************)
(* getSelectorsFromLLM, saveToJson and the loop of main                    *)
(***************************************************************************)
MaxSites == 3

\* getSelectorsFromLLM with the answer merged into the defaults: a default
\* entry stays unless the answer has an entry for its key
getSelectorsFromLLMMerged(outcome, defaultSelectors) ==
    IF outcome.ok
    THEN Resolved([i \in DOMAIN defaultSelectors |->
                      LET same == {j \in DOMAIN outcome.v :
                                      outcome.v[j].key = defaultSelectors[i].key}
                      IN IF same = {} THEN defaultSelectors[i]
                         ELSE outcome.v[CHOOSE j \in same : TRUE]])
    ELSE Resolved(defaultSelectors)

\* what getSelectorsFromLLM settles to once generateObject has settled to
\* outcome: object.selectors, or defaultSelectors from the catch
getSelectorsFromLLM(outcome, defaultSelectors) ==
    IF outcome.ok THEN Resolved(outcome.v) ELSE Resolved(defaultSelectors)

EventFields == {"website", "venue", "price", "event", "date", "ticketLink"}
Truthy(obj, f) == f \in DOMAIN obj /\ obj[f] # <<>>

\* the filter of saveToJson without the test of ticketLink
saveToJsonNoLink(data) ==
    SelectSeq(data, LAMBDA event : \A f \in EventFields \ {"ticketLink"} : Truthy(event, f))

\* what fs.writeFileSync receives from saveToJson: the text of cleanedData,
\* held here as the array that JSON.parse reads back from it (every kept
\* record has its six properties, all strings)
saveToJson(data) ==
    SelectSeq(data, LAMBDA event :
        /\ Truthy(event, "website")
        /\ Truthy(event, "venue")
        /\ Truthy(event, "price")
        /\ Truthy(event, "event")
        /\ Truthy(event, "date")
        /\ Truthy(event, "ticketLink"))

\* allEvents = events, in place of allEvents.concat(events)
AssignEvents(all, events) == events

\* allEvents = allEvents.concat(events)
ConcatEvents(all, events) == all \o events

\* the for loop of main at its idx-th iteration over n sites: scrapeWebsite
\* is called and runs to chromium.launch, or the loop is over
NextAfterSite(idx, n) == IF idx <= n THEN "launch" ELSE "save"

\* the pages a site may serve while main runs
MainPages(cfg) ==
    IF cfg.defaultSelectors = SnsSelectors
    THEN {<<>>, <<Block("snsFull", "none")>>, <<Block("snsFull", ".tix__venue")>>,
          <<Block("snsFull", ".tix__date")>>, <<Block("snsWeekday", "none")>>}
    ELSE {<<>>, <<Block("srFull", "none")>>, <<Block("srFull", ".up-link a")>>,
          <<Block("srFull", "none"), Block("srSoldOut", "none")>>,
          <<Block("srOpenRange", "none")>>}

InitMain ==
    /\ DateIdle
    /\ nowYear = MaxNowYear
    /\ \E n \in 0..Min(MaxSites, Len(websiteConfigs)) : configs = SubSeq(websiteConfigs, 1, n)
    /\ siteIdx = 1
    /\ mainPc = "start"
    /\ config = NoConfig
    /\ selectors = <<>>
    /\ page = <<>>
    /\ scrapePc = "idle"
    /\ tasks = <<>>
    /\ scrapeResult = Unsettled
    /\ openBrowsers = 0
    /\ llm = Unsettled
    /\ resolver = Unsettled
    /\ failing = FALSE
    /\ allEvents = <<>>
    /\ errorLog = <<>>
    /\ calls = <<>>
    /\ saveCalls = 0
    /\ written = <<>>

Untouched == UNCHANGED <<dateVars, nowYear, scrapePc, tasks, configs>>

\* the for loop reaches its idx-th iteration
GoToSite(idx) ==
    /\ siteIdx' = idx
    /\ mainPc' = NextAfterSite(idx, Len(configs))
    /\ config' = IF idx <= Len(configs) THEN configs[idx] ELSE NoConfig
    /\ selectors' = <<>>
    /\ page' = <<>>
    /\ scrapeResult' = Unsettled
    /\ llm' = Unsettled
    /\ resolver' = Unsettled
    /\ failing' = FALSE

\* await scrapeWebsite(config, key) returns events
SiteResolves(events) ==
    /\ allEvents' = ConcatEvents(allEvents, events)
    /\ calls' = Append(calls, [key |-> config.key, ok |-> TRUE, events |-> events])
    /\ UNCHANGED errorLog
    /\ GoToSite(siteIdx + 1)

\* await scrapeWebsite(config, key) throws: catch, console.error
SiteRejects ==
    /\ errorLog' = Append(errorLog, config.key)
    /\ calls' = Append(calls, [key |-> config.key, ok |-> FALSE, events |-> <<>>])
    /\ UNCHANGED allEvents
    /\ GoToSite(siteIdx + 1)

\* an await inside the try block of scrapeWebsite throws: on to finally
Throws ==
    /\ failing' = TRUE
    /\ mainPc' = "close"
    /\ UNCHANGED <<config, selectors, page, scrapeResult, llm, resolver>>
    /\ UNCHANGED <<loopVars, openBrowsers, saveCalls, written>>

\* an await inside the try block returns: on to the next one
Returns(next) ==
    /\ mainPc' = next
    /\ UNCHANGED <<siteVars, loopVars, openBrowsers, saveCalls, written>>

\* main is called
MainStart ==
    /\ mainPc = "start"
    /\ GoToSite(1)
    /\ UNCHANGED <<allEvents, errorLog, calls, openBrowsers, saveCalls, written>>
    /\ Untouched

\* await chromium.launch({ headless: true })
Launch ==
    /\ mainPc = "launch"
    /\ \/ /\ openBrowsers' = openBrowsers + 1
          /\ mainPc' = "newPage"
          /\ UNCHANGED <<siteVars, loopVars>>
       \/ SiteRejects /\ UNCHANGED openBrowsers
    /\ UNCHANGED <<saveCalls, written>>
    /\ Untouched

\* await browser.newPage(), outside the try block
NewPage ==
    /\ mainPc = "newPage"
    /\ \/ Returns("goto")
       \/ SiteRejects /\ UNCHANGED <<openBrowsers, saveCalls, written>>
    /\ Untouched

\* await page.goto(config.url)
Goto ==
    /\ mainPc = "goto"
    /\ \/ Returns(IF config.upcomingEventsSelector # "" THEN "waitUpcoming" ELSE "waitList")
       \/ Throws
    /\ Untouched

\* await page.waitForSelector(config.upcomingEventsSelector, ...)
WaitUpcoming ==
    /\ mainPc = "waitUpcoming"
    /\ Returns("waitList") \/ Throws
    /\ Untouched

\* await page.waitForSelector(config.eventListSelector, ...)
WaitList ==
    /\ mainPc = "waitList"
    /\ Returns("innerHTML") \/ Throws
    /\ Untouched

\* await page.innerHTML(config.eventSectionSelector); getSelectorsFromLLM is
\* called and awaits generateObject
InnerHTML ==
    /\ mainPc = "innerHTML"
    /\ Returns("llm") \/ Throws
    /\ Untouched

\* generateObject has settled to outcome: getSelectorsFromLLM settles, and
\* scrapeWebsite goes on to scrapeEvents or to finally
ResolverSettles(outcome) ==
    /\ llm' = outcome
    /\ resolver' = getSelectorsFromLLM(outcome, config.defaultSelectors)
    /\ selectors' = IF resolver'.ok THEN resolver'.v ELSE selectors
    /\ failing' = ~resolver'.ok
    /\ mainPc' = IF resolver'.ok THEN "scrapeEvents" ELSE "close"
    /\ UNCHANGED <<config, page, scrapeResult>>
    /\ UNCHANGED <<loopVars, openBrowsers, saveCalls, written>>
    /\ Untouched

\* the structured-completion service answers
LLMResolves ==
    /\ mainPc = "llm"
    /\ \E answer \in LLMAnswers(config) : ResolverSettles(Resolved(answer))

\* the structured-completion call fails
LLMRejects ==
    /\ mainPc = "llm"
    /\ ResolverSettles(Rejected)

\* await scrapeEvents(page, selectors, ...)
ScrapeEvents ==
    /\ mainPc = "scrapeEvents"
    /\ \E p \in MainPages(config) :
          /\ page' = p
          /\ scrapeResult' = scrapeEvents(p, selectors, config.key, config.venue, nowYear)
    /\ failing' = ~scrapeResult'.ok
    /\ mainPc' = "close"
    /\ UNCHANGED <<config, selectors, llm, resolver>>
    /\ UNCHANGED <<loopVars, openBrowsers, saveCalls, written>>
    /\ Untouched

\* finally: await browser.close(); scrapeWebsite then settles and main
\* concatenates or catches
Close ==
    /\ mainPc = "close"
    /\ \/ /\ openBrowsers' = openBrowsers - 1
          /\ IF failing THEN SiteRejects ELSE SiteResolves(scrapeResult.v)
       \/ SiteRejects /\ UNCHANGED openBrowsers
    /\ UNCHANGED <<saveCalls, written>>
    /\ Untouched

\* saveToJson(allEvents, filename): fs.writeFileSync writes or throws
Save ==
    /\ mainPc = "save"
    /\ saveCalls' = saveCalls + 1
    /\ \/ written' = Append(written, saveToJson(allEvents)) /\ mainPc' = "done"
       \/ written' = written /\ mainPc' = "failed"
    /\ UNCHANGED <<siteVars, loopVars, openBrowsers>>
    /\ Untouched

NextMain ==
    \/ MainStart
    \/ Launch
    \/ NewPage
    \/ Goto
    \/ WaitUpcoming
    \/ WaitList
    \/ InnerHTML
    \/ LLMResolves
    \/ LLMRejects
    \/ ScrapeEvents
    \/ Close
    \/ Save

SpecMain == InitMain /\ [][NextMain]_vars

\* every await of the browser driver settles (playwright bounds launch, goto,
\* waitForSelector and innerHTML by a timeout), and synchronous code runs on;
\* nothing bounds the generateObject call
FairSpecMain ==
    /\ SpecMain
    /\ WF_vars(MainStart)
    /\ WF_vars(Launch)
    /\ WF_vars(NewPage)
    /\ WF_vars(Goto)
    /\ WF_vars(WaitUpcoming)
    /\ WF_vars(WaitList)
    /\ WF_vars(InnerHTML)
    /\ WF_vars(ScrapeEvents)
    /\ WF_vars(Close)
    /\ WF_vars(Save)

(***************************************************************************)
(* saveToJson on its own, over bounded arrays of records                   *)
(***************************************************************************)
MaxRecords == 2

FullRecord(website) ==
    [f \in EventFields |->
        CASE f = "website" -> website
          [] f = "venue" -> <<"V">>
          [] f = "price" -> <<"$", "5">>
          [] f = "event" -> <<"B", "a", "n", "d">>
          [] f = "date" -> <<"T", "h", "u", ",", " ", "J", "u", "l", " ", "4", ",", " ", "2", "0", "2", "4">>
          [] f = "ticketLink" -> <<"h", "t", "t", "p", "s", ":", "/", "/", "t", ".", "c", "o", "/">>]

\* records as scrapeEvents or a test may hand them over: complete ones, and
\* ones with one property empty or absent
SaveRecords ==
    {FullRecord(<<"a">>), FullRecord(<<"b">>)}
    \cup {Put(FullRecord(<<"a">>), f, <<>>) : f \in EventFields}
    \cup {Delete(FullRecord(<<"a">>), f) : f \in EventFields}

InitSave ==
    /\ DateIdle
    /\ ScrapeIdle
    /\ nowYear = MaxNowYear
    /\ configs = <<>>
    /\ siteIdx = 1
    /\ mainPc = "save"
    /\ openBrowsers = 0
    /\ llm = Unsettled
    /\ resolver = Unsettled
    /\ failing = FALSE
    /\ allEvents \in SeqsUpTo(SaveRecords, MaxRecords)
    /\ errorLog = <<>>
    /\ calls = <<>>
    /\ saveCalls = 0
    /\ written = <<>>

SpecSave == InitSave /\ [][Save]_vars

(***************************************************************************)
(* Properties of main, getSelectorsFromLLM and saveToJson                  *)
(***************************************************************************)
RECURSIVE Flatten(_)
Flatten(ss) == IF ss = <<>> THEN <<>> ELSE Head(ss) \o Flatten(Tail(ss))
LoopOver == mainPc \in {"save", "done", "failed"}

\* C1: main attempts the sites once each in configuration order; a site whose
\* scrape failed is logged with its key and contributes no record; the array
\* handed to saveToJson is the concatenation, in configuration order, of the
\* records of the sites that succeeded
C1_AttemptsAllAndConcatenates ==
    /\ Len(calls) <= Len(configs)
    /\ \A i \in 1..Len(calls) : calls[i].key = configs[i].key
    /\ LoopOver => Len(calls) = Len(configs)
    /\ \A i \in 1..Len(calls) : ~calls[i].ok => calls[i].events = <<>>
    /\ errorLog = [i \in 1..Len(errorLog) |->
                      SelectSeq(calls, LAMBDA c : ~c.ok)[i].key]
    /\ Len(errorLog) = Len(SelectSeq(calls, LAMBDA c : ~c.ok))
    /\ allEvents = Flatten([i \in 1..Len(calls) |-> calls[i].events])

\* C1 witness: three sites, the second failed, the first and third gave
\* records, and the loop is over
C1_Witness ==
    /\ mainPc = "save"
    /\ Len(calls) = MaxSites
    /\ calls[1].ok /\ calls[1].events # <<>>
    /\ ~calls[2].ok
    /\ calls[Len(calls)].ok /\ calls[Len(calls)].events # <<>>
    /\ Len(allEvents) = Len(calls[1].events) + Len(calls[Len(calls)].events)

\* C2: every run of main invokes saveToJson exactly once: sooner or later the
\* number of invocations is one, and it stays one
C2_PersistsExactlyOnce == <>[](saveCalls = 1)

\* C4: once generateObject has settled, getSelectorsFromLLM has resolved (it
\* never rejects): with the service's selectors and nothing else when the
\* call succeeded, with the defaults, entry for entry, when it failed
C4_ResolverNeverFails ==
    /\ resolver.settled <=> llm.settled
    /\ resolver.settled =>
          /\ resolver.ok
          /\ llm.ok => resolver.v = llm.v
          /\ ~llm.ok =>
                /\ Len(resolver.v) = Len(config.defaultSelectors)
                /\ \A i \in 1..Len(resolver.v) :
                      /\ resolver.v[i].key = config.defaultSelectors[i].key
                      /\ resolver.v[i].selector = config.defaultSelectors[i].selector
    /\ mainPc = "scrapeEvents" => resolver.settled /\ selectors = resolver.v

\* C4 witness: the service answered the five required selectors for a site
\* whose defaults have seven
C4_Witness ==
    /\ mainPc = "scrapeEvents"
    /\ llm.ok
    /\ Len(llm.v) < Len(config.defaultSelectors)
    /\ selectors = llm.v

Complete(record) == \A f \in EventFields : f \in DOMAIN record /\ record[f] # <<>>
KeptIndexes == {i \in 1..Len(allEvents) : Complete(allEvents[i])}
NthKept(j) == CHOOSE i \in KeptIndexes : Cardinality({k \in KeptIndexes : k <= i}) = j

\* C5: the array saveToJson writes is the subsequence of its input made of
\* the records whose six fields are all non-empty, in the input's order and
\* unchanged; a record with an empty or missing field is not written
C5_WritesCompleteRecordsOnly ==
    /\ mainPc = "save" => written = <<>>
    /\ mainPc = "failed" => written = <<>>
    /\ mainPc = "done" =>
          /\ Len(written) = 1
          /\ Len(written[1]) = Cardinality(KeptIndexes)
          /\ \A j \in 1..Len(written[1]) : written[1][j] = allEvents[NthKept(j)]
          /\ \A j \in 1..Len(written[1]) : Complete(written[1][j])

\* C5 witness: an input of an incomplete record followed by a complete one
\* has been written
C5_Witness ==
    /\ mainPc = "done"
    /\ Len(allEvents) = MaxRecords
    /\ ~Complete(allEvents[1])
    /\ Complete(allEvents[Len(allEvents)])
    /\ Len(written[1]) = 1

\* C7: every run of main reaches the call of saveToJson, whatever the
\* browser driver and the structured-completion service do
C7_ReachesPersistence == <>LoopOver

(***************************************************************************)
(* Browser sessions of a run, and the weekday formatDate prints            *)
(***************************************************************************)
\* C11: at most one browser is open at any time of a run of main: none is
\* open when scrapeWebsite is about to launch one for the next site, and none
\* is open once the loop is over and saveToJson is invoked
C11_AtMostOneBrowser ==
    /\ openBrowsers <= 1
    /\ mainPc = "launch" => openBrowsers = 0
    /\ LoopOver => openBrowsers = 0

\* the weekday of a Gregorian date, by the calendar's arithmetic: 0 is Sunday
WeekdayOffsets == <<0, 3, 2, 5, 0, 3, 5, 1, 4, 6, 2, 4>>
GregorianWeekday(y, m, d) ==
    LET yy == IF m < 3 THEN y - 1 ELSE y
    IN (yy + (yy \div 4) - (yy \div 100) + (yy \div 400) + WeekdayOffsets[m] + d) % 7

\* an input without '-' that reads as [weekday] month day [year], its first
\* word being one of days or beginning with one of months as they are written
IsRecognizedSingle(s) ==
    /\ ~Includes(s, <<"-">>)
    /\ IsSingleDateText(Trim(s))
    /\ SplitTokens(Trim(s))[1] \in Range(days) \/ IsMonthWord(SplitTokens(Trim(s))[1])

\* the output "Www, Mon D, YYYY" names the weekday of the date it prints
PrintsItsOwnWeekday(out) ==
    LET parts == SplitTokens(out)
    IN /\ Len(parts) = 4
       /\ parts[2] \in Range(months)
       /\ parts[1] = days[GregorianWeekday(ParseInt(parts[4]), MonthNumber(parts[2]),
                                            ParseInt(parts[3])) + 1]

\* the day number of a single-date input
InputDay(s) ==
    LET parts == SplitTokens(Trim(s))
    IN DayNumber(IF parts[1] \in Range(days) THEN parts[3] ELSE parts[2])

\* C12: for every recognized single date with a day of 1 or more, a day
\* beyond the end of its month included, the weekday in the output of
\* formatDate is the weekday of the month, day and year printed in that output
C12_WeekdayMatchesPrintedDate ==
    (datePc # "input" /\ IsRecognizedSingle(dateString) /\ InputDay(dateString) >= 1) =>
        dateResult.ok /\ PrintsItsOwnWeekday(dateResult.v)
=============================================================================
